---- MODULE Spec2Model ----
(***************************************************************************)
(* Model of the Arifi-01 protocol runner:                                  *)
(*   src/arifi_protocol_runner/arifi_protocol_runner.py  (main, the        *)
(*   evolve loop, the analyzers, the quality gate, the artifact files)     *)
(*   src/arifi_protocol_runner/ai_backend.py             (AIBackend)       *)
(* One run of main() is a session; sessions run one after the other into   *)
(* the same output directory, which persists between them.                 *)
(***************************************************************************)
EXTENDS Integers, Sequences, FiniteSets, TLC

(***************************************************************************)
(* Program constants                                                       *)
(***************************************************************************)
MAX_EVOLVE_ITER == 3

DefaultMaxRetry == 2

SyntheticRc == 2

(***************************************************************************)
(* Bounds of the model                                                     *)
(***************************************************************************)
MaxSessions == 2

MaxClock == 1

None == "None"

\* Python's None where a text is expected (no text equals it)
NoText == <<"None">>

(***************************************************************************)
(* Texts.  A text is a sequence of characters drawn from a small alphabet: *)
(*   "F"  a run of three backticks          "N"  a newline                 *)
(*   "\\" a backslash                       "n"  the letter n              *)
(*   "s"  the letter s                      "w"  any other word character  *)
(*   "x"  any other character                                              *)
(***************************************************************************)
WordChars == {"n", "s", "w"}

ClassChars == {"\\", "s"}

Whitespace == {"N"}

RECURSIVE LStrip(_)
LStrip(t) ==
    IF t # <<>> /\ Head(t) \in Whitespace THEN LStrip(Tail(t)) ELSE t

RECURSIVE RStrip(_)
RStrip(t) ==
    IF t # <<>> /\ t[Len(t)] \in Whitespace
    THEN RStrip(SubSeq(t, 1, Len(t) - 1)) ELSE t

Strip(t) == RStrip(LStrip(t))

\* text[i..] starts with the characters of lit
LitAt(text, i, lit) ==
    /\ i + Len(lit) - 1 <= Len(text)
    /\ \A k \in 1..Len(lit) : text[i + k - 1] = lit[k]

\* length of the longest run of word characters starting at i
RECURSIVE WordRun(_, _)
WordRun(text, i) ==
    IF i <= Len(text) /\ text[i] \in WordChars
    THEN 1 + WordRun(text, i + 1) ELSE 0

\* the lazy group [\\s\\S]*? starting at a, followed by the closing
\* backslash, n, fence: the shortest length that lets the rest match, or -1
RECURSIVE LazyGroup(_, _, _)
LazyGroup(text, a, j) ==
    IF LitAt(text, a + j, <<"\\", "n", "F">>) THEN j
    ELSE IF a + j <= Len(text) /\ text[a + j] \in ClassChars
         THEN LazyGroup(text, a, j + 1)
         ELSE -1

\* a match of  ```(?:\w+)?\\n([\\s\\S]*?)\\n```  anchored at i: the group
\* as [from, len], or len = -1.  withWord = FALSE is the second pattern,
\* ```\\n([\\s\\S]*?)\\n```
MatchAt(text, i, withWord) ==
    IF ~LitAt(text, i, <<"F">>) THEN [from |-> 0, len |-> -1]
    ELSE LET tries == IF withWord THEN 0..WordRun(text, i + 1) ELSE {0}
             good == {k \in tries :
                        /\ LitAt(text, i + 1 + k, <<"\\", "n">>)
                        /\ LazyGroup(text, i + 3 + k, 0) >= 0}
         IN IF good = {} THEN [from |-> 0, len |-> -1]
            ELSE LET k == CHOOSE m \in good : \A o \in good : o <= m
                 IN [from |-> i + 3 + k,
                     len |-> LazyGroup(text, i + 3 + k, 0)]

\* re.search: the leftmost position at which the pattern matches
RegexSearch(text, withWord) ==
    LET hits == {i \in 1..Len(text) : MatchAt(text, i, withWord).len >= 0}
    IN IF hits = {} THEN NoText
       ELSE LET i == CHOOSE m \in hits : \A o \in hits : m <= o
                g == MatchAt(text, i, withWord)
            IN SubSeq(text, g.from, g.from + g.len - 1)

_extract_code(text) ==
    LET m == RegexSearch(text, TRUE)
    IN IF m # NoText THEN m
       ELSE RegexSearch(text, FALSE)

\* Python truthiness of an Optional[str]
Truthy(v) == v # NoText /\ v # <<>>

(***************************************************************************)
(* Language detection and the language-keyed tables                        *)
(***************************************************************************)
Prompts == {"write js add", "write typescript add", "write add"}

\* needle in prompt.lower()
Contains(prompt, needle) ==
    CASE needle = "javascript" -> FALSE
      [] needle = "js" -> prompt = "write js add"
      [] needle = ".js" -> FALSE
      [] needle = "typescript" -> prompt = "write typescript add"
      [] needle = "ts " -> FALSE
      [] OTHER -> FALSE

detect_language_from_prompt(prompt) ==
    IF Contains(prompt, "javascript") \/ Contains(prompt, "js")
       \/ Contains(prompt, ".js")
    THEN "javascript"
    ELSE IF Contains(prompt, "typescript") \/ Contains(prompt, "ts ")
         THEN "typescript"
         ELSE "python"

\* language.lower().startswith("js")
StartsWithJs(language) ==
    CASE language = "python" -> FALSE
      [] language = "javascript" -> FALSE
      [] language = "typescript" -> FALSE
      [] OTHER -> language = "js"

ExtOf(lang) ==
    IF lang = "python" THEN "py"
    ELSE IF lang = "javascript" THEN "js" ELSE "txt"

(***************************************************************************)
(* The clock of the machine: datetime.now(), in seconds                    *)
(***************************************************************************)
VARIABLE clock

(***************************************************************************)
(* ai_backend.py                                                           *)
(***************************************************************************)
\* the process environment of one run: is the openai package importable,
\* is OPENAI_API_KEY set
Envs == [pkg : BOOLEAN, key : BOOLEAN]

\* AIBackend.__init__
AIBackend(provider, max_retry, e) ==
    [provider |-> IF provider # None THEN provider
                  ELSE IF e.pkg /\ e.key THEN "openai" ELSE "local",
     max_retry |-> max_retry]

\* what one remote call can do: raise, or answer with a text
Responses ==
    { <<"F", "w", "N", "x", "N", "F">>,
      <<"x", "N">> }

\* the exceptions of a remote call: one that a later call may not meet
\* (rate limit, timeout), one that every later call meets too
Failures == {<<"raise", "transient">>, <<"raise", "fatal">>}

RemoteOutcomes == Failures \cup Responses

\* "except Exception as e"
Raises(o) == o \in Failures

\* StubTemplate with the time of generation in the header of the template
StubTemplate_Timestamped(prompt, language) ==
    IF StartsWithJs(language)
    THEN <<"// Generated (stub) JavaScript code for prompt:", prompt,
           IF clock = 0 THEN "at 0" ELSE "later">>
    ELSE <<"# Generated (stub) Python code for prompt:", prompt,
           IF clock = 0 THEN "at 0" ELSE "later">>

StubTemplate(prompt, language) ==
    IF StartsWithJs(language)
    THEN <<"// Generated (stub) JavaScript code for prompt:", prompt>>
    ELSE <<"# Generated (stub) Python code for prompt:", prompt>>

\* GenerateAttempts returning the text of the first response as the code
\* when no code was extracted from it, without asking again
GenerateAttempts_NoRetry(b, outs, a) ==
    IF Raises(outs[a + 1])
    THEN [success |-> FALSE, code |-> NoText, error |-> outs[a + 1][2],
          requests |-> a + 1]
    ELSE LET text == Strip(outs[a + 1])
             code == _extract_code(text)
         IN [success |-> TRUE,
             code |-> IF Truthy(code) THEN code ELSE text,
             error |-> None, requests |-> a + 1]

\* the retry loop of generate_code from attempt a on; outs[a + 1] is what
\* the remote call of attempt a does
RECURSIVE GenerateAttempts(_, _, _)
GenerateAttempts(b, outs, a) ==
    IF Raises(outs[a + 1])
    THEN [success |-> FALSE, code |-> NoText, error |-> outs[a + 1][2],
          requests |-> a + 1]
    ELSE LET text == Strip(outs[a + 1])
             code == _extract_code(text)
         IN IF Truthy(code)
            THEN [success |-> TRUE, code |-> code, error |-> None,
                  requests |-> a + 1]
            ELSE IF a < b.max_retry
                 THEN GenerateAttempts(b, outs, a + 1)
                 ELSE [success |-> TRUE, code |-> text, error |-> None,
                       requests |-> a + 1]

generate_code(b, e, prompt, language, outs) ==
    IF b.provider = "openai" /\ e.pkg
    THEN GenerateAttempts(b, outs, 0)
    ELSE [success |-> TRUE, code |-> StubTemplate(prompt, language),
          error |-> None, requests |-> 0]

\* repair_code whose local branch returns the code with a newline added
repair_code_StubAppends(b, e, code, analysis_report, language, out) ==
    IF b.provider = "openai" /\ e.pkg
    THEN IF Raises(out)
         THEN [success |-> FALSE, code |-> NoText, error |-> out[2],
               requests |-> 1]
         ELSE LET text == Strip(out)
                  ex == _extract_code(text)
              IN [success |-> TRUE,
                  code |-> IF Truthy(ex) THEN ex ELSE text,
                  error |-> None, requests |-> 1]
    ELSE [success |-> TRUE, code |-> Append(code, "N"), error |-> None,
          requests |-> 0]

repair_code(b, e, code, analysis_report, language, out) ==
    IF b.provider = "openai" /\ e.pkg
    THEN IF Raises(out)
         THEN [success |-> FALSE, code |-> NoText, error |-> out[2],
               requests |-> 1]
         ELSE LET text == Strip(out)
                  ex == _extract_code(text)
              IN [success |-> TRUE,
                  code |-> IF Truthy(ex) THEN ex ELSE text,
                  error |-> None, requests |-> 1]
    ELSE [success |-> TRUE, code |-> code, error |-> None, requests |-> 0]

(***************************************************************************)
(* Analyzers and the quality gate                                          *)
(***************************************************************************)
\* what one analyzer process can do: exit 0, exit 1, or make
\* subprocess.run raise (not launched, timed out)
CmdOutcomes == {"exit0", "exit1", "raise"}

\* run_cmd reporting a process that could not be run as a clean exit
run_cmd_SwallowError(tool, o) ==
    [key |-> tool, finding |-> TRUE,
     rc |-> IF o = "exit1" THEN 1 ELSE 0,
     stderr |-> IF o = "raise" THEN "str(e)" ELSE "captured"]

run_cmd(tool, o) ==
    IF o = "raise"
    THEN [key |-> tool, finding |-> TRUE, rc |-> SyntheticRc,
          stderr |-> "str(e)"]
    ELSE [key |-> tool, finding |-> TRUE,
          rc |-> IF o = "exit0" THEN 0 ELSE 1, stderr |-> "captured"]

\* the analyzers configured for a file suffix, in the order they are run
Analyzers(suffix) ==
    IF suffix = "py" THEN <<"flake8", "mypy", "radon">>
    ELSE IF suffix \in {"js", "ts"} THEN <<"eslint">>
    ELSE <<>>

ToolSet(suffix) ==
    {Analyzers(suffix)[i] : i \in 1..Len(Analyzers(suffix))}

\* analyze_file giving up at the first analyzer that could not be run
analyze_file_StopAtFailure(suffix, outs) ==
    IF suffix = "py"
    THEN IF outs["flake8"] = "raise"
         THEN << run_cmd("flake8", outs["flake8"]) >>
         ELSE IF outs["mypy"] = "raise"
              THEN << run_cmd("flake8", outs["flake8"]),
                      run_cmd("mypy", outs["mypy"]) >>
              ELSE << run_cmd("flake8", outs["flake8"]),
                      run_cmd("mypy", outs["mypy"]),
                      run_cmd("radon", outs["radon"]) >>
    ELSE IF suffix \in {"js", "ts"}
         THEN << run_cmd("eslint", outs["eslint"]) >>
         ELSE << [key |-> "note", finding |-> FALSE, rc |-> 0,
                  stderr |-> "no analyzer"] >>

\* the report is a dict in insertion order: a sequence of entries
analyze_file(suffix, outs) ==
    IF suffix = "py"
    THEN << run_cmd("flake8", outs["flake8"]),
            run_cmd("mypy", outs["mypy"]),
            run_cmd("radon", outs["radon"]) >>
    ELSE IF suffix \in {"js", "ts"}
         THEN << run_cmd("eslint", outs["eslint"]) >>
         ELSE << [key |-> "note", finding |-> FALSE, rc |-> 0,
                  stderr |-> "no analyzer"] >>

\* "k in report and report[k]["rc"] != 0"
KeyFails(report, k) ==
    \E i \in 1..Len(report) : report[i].key = k /\ report[i].rc # 0

\* metrics_ok without the mypy test
metrics_ok_NoMypy(report) ==
    IF KeyFails(report, "flake8") THEN FALSE
    ELSE IF KeyFails(report, "eslint") THEN FALSE
    ELSE TRUE

metrics_ok(report) ==
    IF KeyFails(report, "flake8") THEN FALSE
    ELSE IF KeyFails(report, "mypy") THEN FALSE
    ELSE IF KeyFails(report, "eslint") THEN FALSE
    ELSE TRUE

\* the findings of a report (the "note" entry is a text, not a finding)
Findings(report) == SelectSeq(report, LAMBDA en : en.finding)

(***************************************************************************)
(* Files.  A path of the output directory is generated_<ts>{_r<k>}.<ext>   *)
(* and, for the metadata record, the same with ".meta.json" appended.      *)
(***************************************************************************)
\* OUTPUT_DIR / f"generated_{ts}.{ext}"
GeneratedPath(ts, ext) ==
    [ts |-> ts, chain |-> <<>>, ext |-> ext, meta |-> FALSE]

\* path.with_name(path.stem + f"_r{k}" + path.suffix)
RepairedPath(path, k) == [path EXCEPT !.chain = Append(@, k)]

\* path.with_suffix(path.suffix + ".meta.json")
MetaPath(path) == [path EXCEPT !.meta = TRUE]

\* what one write_text can do: write the whole file; raise before the file
\* is opened; raise after it was opened (created or truncated) and before
\* all of the data is in it
WriteOutcomes == {"ok", "open_error", "partial"}

\* the directory after Path.write_text(data) on path with outcome o;
\* writes counts how often the file was opened for writing
write_text(dir, path, data, o) ==
    IF o = "open_error" THEN dir
    ELSE LET n == IF path \in DOMAIN dir THEN dir[path].writes ELSE 0
         IN (path :> [data |-> data, complete |-> (o = "ok"),
                      writes |-> n + 1])
            @@ dir

\* the two writes of an artifact: the content, then the metadata record,
\* which is written only when the first write did not raise
WriteOutcomePairs ==
    {<<"ok", o>> : o \in WriteOutcomes}
        \cup {<<"open_error", "skipped">>, <<"partial", "skipped">>}

WritePair(dir, path, data, metadata, os) ==
    IF os[1] # "ok" THEN write_text(dir, path, data, os[1])
    ELSE write_text(write_text(dir, path, data, "ok"),
                    MetaPath(path), metadata, os[2])

Raised(os) == os[1] # "ok" \/ os[2] # "ok"

\* what the two writes of one artifact can do on a disk that fails or not
PossibleWrites(faulty) ==
    IF faulty THEN WriteOutcomePairs ELSE {<<"ok", "ok">>}

\* values of variables that are not bound yet
NoPath == [ts |-> -1, chain |-> <<>>, ext |-> "", meta |-> FALSE]

NoResult == [success |-> FALSE, code |-> NoText, error |-> None,
             requests |-> -1]

NoBackend == [provider |-> None, max_retry |-> 0]

NoReport == <<>>

NoCall == [kind |-> None, at |-> -1, prompt |-> None, language |-> None,
           code |-> NoText, outs |-> <<>>, res |-> NoResult]

(***************************************************************************)
(* State                                                                   *)
(***************************************************************************)
VARIABLES
    disk_faults,    \* can a write to OUTPUT_DIR raise OSError
    fs,             \* the files of OUTPUT_DIR: path -> file
    nsessions,      \* runs of main() started so far
    pc,             \* where the current run of main() is
    env,            \* OPENAI_PKG, OPENAI_API_KEY of the current run
    prompt_file,    \* main's argument: None, "missing" or "present"
    prompt,
    lang,
    backend,
    gen,            \* result of generate_with_ai
    current_path,   \* attempt_evolve's current_path (out_path at first)
    iteration,      \* the loop variable of attempt_evolve, -1 before it
    report,
    ok,
    code_text,      \* attempt_evolve's code_text
    res,            \* result of backend.repair_code
    final_path,
    final_report,
    exit_code,      \* the process's exit status, None while it runs
    inflight,       \* the external calls issued and not yet returned
    written,        \* the artifacts written by this run, in order
    analysed,       \* the analyses of this run, in order
    repairs,        \* the repair calls of this run, in order
    stop,           \* how the loop of attempt_evolve ended, None before
    uncaught,       \* the exception that ended the process, None if none
    procs,          \* what the analyzer processes of the last analysis did
    cancel_requested,  \* has the operator asked for no further iterations
    client_env,     \* OPENAI_PKG, OPENAI_API_KEY of a process using AIBackend
    client_provider,   \* the provider argument it gave to AIBackend()
    client_backend, \* the AIBackend it constructed
    client_call,    \* its last call of generate_code or repair_code
    client_kept     \* an earlier generate_code call made without a key,
                    \* kept for comparison

vars == <<clock, disk_faults, fs, nsessions, pc, env, prompt_file, prompt, lang, backend,
          gen, current_path, iteration, report, ok, code_text, res,
          final_path, final_report, exit_code, inflight, written, analysed, repairs,
          stop, uncaught, procs, cancel_requested, client_env,
          client_provider, client_backend, client_call, client_kept>>

locals == <<prompt, lang, backend, gen, current_path, iteration, report, ok,
            code_text, res, final_path, final_report>>

logs == <<written, analysed, repairs>>

hist == <<stop, uncaught, procs>>

client == <<client_env, client_provider, client_backend, client_call,
            client_kept>>

\* what no step of main() touches
outside == <<cancel_requested, client_env, client_provider, client_backend,
             client_call, client_kept>>

Init ==
    /\ clock = 0
    /\ disk_faults \in BOOLEAN
    /\ fs = <<>>
    /\ nsessions = 0
    /\ pc = "idle"
    /\ env = [pkg |-> FALSE, key |-> FALSE]
    /\ prompt_file = None
    /\ prompt = None
    /\ lang = None
    /\ backend = NoBackend
    /\ gen = NoResult
    /\ current_path = NoPath
    /\ iteration = -1
    /\ report = NoReport
    /\ ok = FALSE
    /\ code_text = NoText
    /\ res = NoResult
    /\ final_path = NoPath
    /\ final_report = NoReport
    /\ exit_code = None
    /\ inflight = {}
    /\ written = <<>>
    /\ analysed = <<>>
    /\ repairs = <<>>
    /\ stop = None
    /\ uncaught = None
    /\ procs = <<>>
    /\ cancel_requested = FALSE
    /\ client_env = [pkg |-> FALSE, key |-> FALSE]
    /\ client_provider = None
    /\ client_backend = NoBackend
    /\ client_call = NoCall
    /\ client_kept = NoCall

\* the clock advances; only save_artifacts reads it
Tick ==
    /\ pc = "idle"
    /\ clock < MaxClock
    /\ clock' = clock + 1
    /\ UNCHANGED <<disk_faults, fs, nsessions, pc, env, prompt_file,
                   exit_code, inflight>>
    /\ UNCHANGED locals
    /\ UNCHANGED logs
    /\ UNCHANGED hist
    /\ UNCHANGED outside

\* a process runs main(prompt_file)
StartMain ==
    /\ pc = "idle"
    /\ nsessions' = nsessions + 1
    /\ \E e \in Envs : env' = e
    /\ \E f \in {None, "missing", "present"} : prompt_file' = f
    /\ pc' = "main"
    /\ UNCHANGED <<clock, disk_faults, fs, exit_code, inflight>>
    /\ UNCHANGED locals
    /\ UNCHANGED logs
    /\ UNCHANGED hist
    /\ UNCHANGED outside

\* the process ends: sys.exit(code), main returns (0), or an exception
\* that nothing catches (the interpreter prints it and exits with 1)
Exit(code, exception) ==
    /\ pc' = "exited"
    /\ exit_code' = code
    /\ uncaught' = exception

\* main: no prompt file given: print the usage, sys.exit(1)
MainUsage ==
    /\ pc = "main"
    /\ prompt_file = None
    /\ Exit(1, None)
    /\ UNCHANGED <<clock, disk_faults, fs, nsessions, env, prompt_file,
                   inflight, stop, procs>>
    /\ UNCHANGED locals
    /\ UNCHANGED logs
    /\ UNCHANGED outside

\* prompt_from_file raises FileNotFoundError, which main does not catch
MainPromptMissing ==
    /\ pc = "main"
    /\ prompt_file = "missing"
    /\ Exit(1, "FileNotFoundError")
    /\ UNCHANGED <<clock, disk_faults, fs, nsessions, env, prompt_file,
                   inflight, stop, procs>>
    /\ UNCHANGED locals
    /\ UNCHANGED logs
    /\ UNCHANGED outside

\* prompt_from_file, detect_language_from_prompt, AIBackend(model=AI_MODEL)
MainReadPrompt ==
    /\ pc = "main"
    /\ prompt_file = "present"
    /\ \E p \in Prompts :
         /\ prompt' = p
         /\ lang' = detect_language_from_prompt(p)
    /\ backend' = AIBackend(None, DefaultMaxRetry, env)
    /\ pc' = "generate"
    /\ UNCHANGED <<clock, disk_faults, fs, nsessions, env, prompt_file, exit_code,
                   inflight, gen, current_path, iteration, report, ok, code_text, res,
                   final_path, final_report>>
    /\ UNCHANGED logs
    /\ UNCHANGED hist
    /\ UNCHANGED outside

\* generate_with_ai is called
GenerateCall ==
    /\ pc = "generate"
    /\ inflight' = inflight \cup {"generate"}
    /\ pc' = "in_generate"
    /\ UNCHANGED <<clock, disk_faults, fs, nsessions, env, prompt_file, exit_code>>
    /\ UNCHANGED locals
    /\ UNCHANGED logs
    /\ UNCHANGED hist
    /\ UNCHANGED outside

\* generate_with_ai returns
GenerateReturn ==
    /\ pc = "in_generate"
    /\ \E outs \in [1..(backend.max_retry + 1) -> RemoteOutcomes] :
         gen' = generate_code(backend, env, prompt, lang, outs)
    /\ inflight' = inflight \ {"generate"}
    /\ pc' = "generated"
    /\ UNCHANGED <<clock, disk_faults, fs, nsessions, env, prompt_file, exit_code,
                   prompt, lang, backend, current_path, iteration, report,
                   ok, code_text, res, final_path, final_report>>
    /\ UNCHANGED logs
    /\ UNCHANGED hist
    /\ UNCHANGED outside

\* MainGenerationFailed leaving with status 0
MainGenerationFailed_ExitZero ==
    /\ pc = "generated"
    /\ ~gen.success
    /\ Exit(0, None)
    /\ UNCHANGED <<clock, disk_faults, fs, nsessions, env, prompt_file,
                   inflight, stop, procs>>
    /\ UNCHANGED locals
    /\ UNCHANGED logs
    /\ UNCHANGED outside

\* main: "if not gen.get('success')": sys.exit(1)
MainGenerationFailed ==
    /\ pc = "generated"
    /\ ~gen.success
    /\ Exit(1, None)
    /\ UNCHANGED <<clock, disk_faults, fs, nsessions, env, prompt_file,
                   inflight, stop, procs>>
    /\ UNCHANGED locals
    /\ UNCHANGED logs
    /\ UNCHANGED outside

\* save_artifacts(code, prompt, lang), then attempt_evolve is entered
SaveArtifacts ==
    /\ pc = "generated"
    /\ gen.success
    /\ LET out == GeneratedPath(clock, ExtOf(lang))
           metadata == [prompt |-> prompt, language |-> lang,
                        generated_at |-> clock]
       IN \E os \in PossibleWrites(disk_faults) :
            /\ fs' = WritePair(fs, out, gen.code, metadata, os)
            /\ written' = IF os[1] = "ok"
                          THEN Append(written, [path |-> out, iter |-> 0])
                          ELSE written
            /\ IF Raised(os)
               THEN /\ Exit(1, "OSError")
                    /\ UNCHANGED current_path
               ELSE /\ current_path' = out
                    /\ pc' = "for"
                    /\ UNCHANGED <<exit_code, uncaught>>
    /\ UNCHANGED <<clock, disk_faults, nsessions, env, prompt_file, inflight, prompt,
                   lang, backend, gen, iteration, report, ok, code_text, res,
                   final_path, final_report, analysed, repairs, stop,
                   procs>>
    /\ UNCHANGED outside

\* the position in written of the artifact at path (0: not written)
IndexOf(path) ==
    IF \E i \in 1..Len(written) : written[i].path = path
    THEN (CHOOSE i \in 1..Len(written) : written[i].path = path)
    ELSE 0

\* Return handing out_path, the first artifact, back to main
Return_OutPath(reason) ==
    /\ final_path' = written[1].path
    /\ current_path' = NoPath
    /\ iteration' = -1
    /\ report' = NoReport
    /\ ok' = FALSE
    /\ code_text' = NoText
    /\ res' = NoResult
    /\ procs' = <<>>
    /\ stop' = reason
    /\ pc' = "final"

\* attempt_evolve returns current_path to main, which binds it to
\* final_path; the frame of attempt_evolve and its locals are gone
Return(reason) ==
    /\ final_path' = current_path
    /\ current_path' = NoPath
    /\ iteration' = -1
    /\ report' = NoReport
    /\ ok' = FALSE
    /\ code_text' = NoText
    /\ res' = NoResult
    /\ procs' = <<>>
    /\ stop' = reason
    /\ pc' = "final"

\* ForNext with the range one too long
ForNext_OffByOne ==
    /\ pc = "for"
    /\ iteration + 1 <= MAX_EVOLVE_ITER
    /\ iteration' = iteration + 1
    /\ pc' = "analyze"
    /\ UNCHANGED <<clock, disk_faults, fs, nsessions, env, prompt_file,
                   exit_code, inflight, prompt, lang, backend, gen,
                   current_path, report, ok, code_text, res, final_path,
                   final_report>>
    /\ UNCHANGED logs
    /\ UNCHANGED hist
    /\ UNCHANGED outside

\* attempt_evolve: "for iteration in range(0, MAX_EVOLVE_ITER)" takes its
\* next value
ForNext ==
    /\ pc = "for"
    /\ iteration + 1 < MAX_EVOLVE_ITER
    /\ iteration' = iteration + 1
    /\ pc' = "analyze"
    /\ UNCHANGED <<clock, disk_faults, fs, nsessions, env, prompt_file, exit_code,
                   inflight, prompt, lang, backend, gen, current_path,
                   report, ok, code_text, res, final_path, final_report>>
    /\ UNCHANGED logs
    /\ UNCHANGED hist
    /\ UNCHANGED outside

\* the range is used up: the loop ends, attempt_evolve returns current_path
ForExhausted ==
    /\ pc = "for"
    /\ ~(iteration + 1 < MAX_EVOLVE_ITER)
    /\ Return("range")
    /\ UNCHANGED <<clock, disk_faults, fs, nsessions, env, prompt_file,
                   exit_code, uncaught, inflight, prompt, lang, backend, gen,
                   final_report>>
    /\ UNCHANGED logs
    /\ UNCHANGED outside

\* analyze_file(current_path) is called: the analyzers are started
AnalyzeCall ==
    /\ pc = "analyze"
    /\ inflight' = inflight \cup {"analyze"}
    /\ pc' = "in_analyze"
    /\ UNCHANGED <<clock, disk_faults, fs, nsessions, env, prompt_file, exit_code>>
    /\ UNCHANGED locals
    /\ UNCHANGED logs
    /\ UNCHANGED hist
    /\ UNCHANGED outside

\* analyze_file returns; ok = metrics_ok(report); the log line is printed
AnalyzeReturn ==
    /\ pc = "in_analyze"
    /\ \E outs \in [ToolSet(current_path.ext) -> CmdOutcomes] :
         /\ procs' = outs
         /\ report' = analyze_file(current_path.ext, outs)
         /\ ok' = metrics_ok(report')
    /\ analysed' = Append(analysed, [on |-> IndexOf(current_path),
                                     iteration |-> iteration,
                                     gate |-> TRUE, ok |-> ok'])
    /\ inflight' = inflight \ {"analyze"}
    /\ pc' = "gate"
    /\ UNCHANGED <<clock, disk_faults, fs, nsessions, env, prompt_file, exit_code,
                   prompt, lang, backend, gen, current_path, iteration,
                   code_text, res, final_path, final_report, written,
                   repairs, stop, uncaught>>
    /\ UNCHANGED outside

\* GatePassed without the break: the loop goes on to its next iteration
GatePassed_NoBreak ==
    /\ pc = "gate"
    /\ ok
    /\ pc' = "for"
    /\ UNCHANGED <<clock, disk_faults, fs, nsessions, env, prompt_file,
                   exit_code, inflight>>
    /\ UNCHANGED locals
    /\ UNCHANGED logs
    /\ UNCHANGED hist
    /\ UNCHANGED outside

\* "if ok: break"; attempt_evolve returns current_path
GatePassed ==
    /\ pc = "gate"
    /\ ok
    /\ Return("gate")
    /\ UNCHANGED <<clock, disk_faults, fs, nsessions, env, prompt_file,
                   exit_code, uncaught, inflight, prompt, lang, backend, gen,
                   final_report>>
    /\ UNCHANGED logs
    /\ UNCHANGED outside

\* RepairCall without looking at the gate's verdict
RepairCall_NoGate ==
    /\ pc = "gate"
    /\ code_text' = fs[current_path].data
    /\ repairs' = Append(repairs,
                         [of |-> IndexOf(current_path),
                          report_on |-> analysed[Len(analysed)].on,
                          returned |-> FALSE, success |-> FALSE])
    /\ inflight' = inflight \cup {"repair"}
    /\ pc' = "in_repair"
    /\ UNCHANGED <<clock, disk_faults, fs, nsessions, env, prompt_file,
                   exit_code, prompt, lang, backend, gen, current_path,
                   iteration, report, ok, res, final_path, final_report,
                   written, analysed>>
    /\ UNCHANGED hist
    /\ UNCHANGED outside

\* the gate failed: current_path.read_text(), backend.repair_code is called
RepairCall ==
    /\ pc = "gate"
    /\ ~ok
    /\ code_text' = fs[current_path].data
    /\ repairs' = Append(repairs,
                         [of |-> IndexOf(current_path),
                          report_on |-> analysed[Len(analysed)].on,
                          returned |-> FALSE, success |-> FALSE])
    /\ inflight' = inflight \cup {"repair"}
    /\ pc' = "in_repair"
    /\ UNCHANGED <<clock, disk_faults, fs, nsessions, env, prompt_file, exit_code,
                   prompt, lang, backend, gen, current_path, iteration,
                   report, ok, res, final_path, final_report, written,
                   analysed>>
    /\ UNCHANGED hist
    /\ UNCHANGED outside

\* backend.repair_code returns
RepairReturn ==
    /\ pc = "in_repair"
    /\ \E out \in RemoteOutcomes :
         res' = repair_code(backend, env, code_text, report,
                            IF current_path.ext = "py"
                            THEN "python" ELSE "javascript", out)
    /\ repairs' = [repairs EXCEPT ![Len(repairs)].returned = TRUE,
                                  ![Len(repairs)].success = res'.success]
    /\ inflight' = inflight \ {"repair"}
    /\ pc' = "repaired"
    /\ UNCHANGED <<clock, disk_faults, fs, nsessions, env, prompt_file, exit_code,
                   prompt, lang, backend, gen, current_path, iteration,
                   report, ok, code_text, final_path, final_report, written,
                   analysed>>
    /\ UNCHANGED hist
    /\ UNCHANGED outside

\* "if not res.get('success'): break"; attempt_evolve returns current_path
RepairFailed ==
    /\ pc = "repaired"
    /\ ~res.success
    /\ Return("repair_failed")
    /\ UNCHANGED <<clock, disk_faults, fs, nsessions, env, prompt_file,
                   exit_code, uncaught, inflight, prompt, lang, backend, gen,
                   final_report>>
    /\ UNCHANGED logs
    /\ UNCHANGED outside

\* SaveRepaired numbering the new artifact like its parent's iteration
SaveRepaired_ReuseIndex ==
    /\ pc = "repaired"
    /\ res.success
    /\ LET new_path == RepairedPath(current_path, iteration)
           metadata == [repaired_by_ai |-> TRUE, iter |-> iteration]
       IN \E os \in PossibleWrites(disk_faults) :
            /\ fs' = WritePair(fs, new_path, res.code, metadata, os)
            /\ written' = IF os[1] = "ok"
                          THEN Append(written, [path |-> new_path,
                                                iter |-> iteration])
                          ELSE written
            /\ IF Raised(os)
               THEN /\ Exit(1, "OSError")
                    /\ UNCHANGED current_path
               ELSE /\ current_path' = new_path
                    /\ pc' = "for"
                    /\ UNCHANGED <<exit_code, uncaught>>
    /\ UNCHANGED <<clock, disk_faults, nsessions, env, prompt_file, inflight, prompt,
                   lang, backend, gen, iteration, report, ok, code_text, res,
                   final_path, final_report, analysed, repairs, stop,
                   procs>>
    /\ UNCHANGED outside

\* SaveRepaired without the test of the repair's success
SaveRepaired_Unchecked ==
    /\ pc = "repaired"
    /\ LET new_path == RepairedPath(current_path, iteration + 1)
           metadata == [repaired_by_ai |-> TRUE, iter |-> iteration + 1]
       IN \E os \in PossibleWrites(disk_faults) :
            /\ fs' = WritePair(fs, new_path, res.code, metadata, os)
            /\ written' = IF os[1] = "ok"
                          THEN Append(written, [path |-> new_path,
                                                iter |-> iteration + 1])
                          ELSE written
            /\ IF Raised(os)
               THEN /\ Exit(1, "OSError")
                    /\ UNCHANGED current_path
               ELSE /\ current_path' = new_path
                    /\ pc' = "for"
                    /\ UNCHANGED <<exit_code, uncaught>>
    /\ UNCHANGED <<clock, disk_faults, nsessions, env, prompt_file, inflight, prompt,
                   lang, backend, gen, iteration, report, ok, code_text, res,
                   final_path, final_report, analysed, repairs, stop,
                   procs>>
    /\ UNCHANGED outside

\* the repaired code and its metadata record are written next to the
\* parent; current_path = new_path
SaveRepaired ==
    /\ pc = "repaired"
    /\ res.success
    /\ LET new_path == RepairedPath(current_path, iteration + 1)
           metadata == [repaired_by_ai |-> TRUE, iter |-> iteration + 1]
       IN \E os \in PossibleWrites(disk_faults) :
            /\ fs' = WritePair(fs, new_path, res.code, metadata, os)
            /\ written' = IF os[1] = "ok"
                          THEN Append(written, [path |-> new_path,
                                                iter |-> iteration + 1])
                          ELSE written
            /\ IF Raised(os)
               THEN /\ Exit(1, "OSError")
                    /\ UNCHANGED current_path
               ELSE /\ current_path' = new_path
                    /\ pc' = "for"
                    /\ UNCHANGED <<exit_code, uncaught>>
    /\ UNCHANGED <<clock, disk_faults, nsessions, env, prompt_file, inflight, prompt,
                   lang, backend, gen, iteration, report, ok, code_text, res,
                   final_path, final_report, analysed, repairs, stop,
                   procs>>
    /\ UNCHANGED outside

\* main: analyze_file(final_path) is called
FinalAnalyzeCall ==
    /\ pc = "final"
    /\ inflight' = inflight \cup {"analyze"}
    /\ pc' = "in_final"
    /\ UNCHANGED <<clock, disk_faults, fs, nsessions, env, prompt_file, exit_code>>
    /\ UNCHANGED locals
    /\ UNCHANGED logs
    /\ UNCHANGED hist
    /\ UNCHANGED outside

\* the final report is printed, main returns: the process exits with 0
FinalAnalyzeReturn ==
    /\ pc = "in_final"
    /\ \E outs \in [ToolSet(final_path.ext) -> CmdOutcomes] :
         /\ procs' = outs
         /\ final_report' = analyze_file(final_path.ext, outs)
    /\ analysed' = Append(analysed, [on |-> IndexOf(final_path),
                                     iteration |-> -1,
                                     gate |-> FALSE, ok |-> FALSE])
    /\ inflight' = inflight \ {"analyze"}
    /\ Exit(0, None)
    /\ UNCHANGED <<clock, disk_faults, fs, nsessions, env, prompt_file,
                   prompt, lang, backend, gen, current_path, iteration,
                   report, ok, code_text, res, final_path, written, repairs,
                   stop>>
    /\ UNCHANGED outside

Next ==
    \/ Tick
    \/ StartMain
    \/ MainUsage
    \/ MainPromptMissing
    \/ MainReadPrompt
    \/ GenerateCall
    \/ GenerateReturn
    \/ MainGenerationFailed
    \/ SaveArtifacts
    \/ ForNext
    \/ ForExhausted
    \/ AnalyzeCall
    \/ AnalyzeReturn
    \/ GatePassed
    \/ RepairCall
    \/ RepairReturn
    \/ RepairFailed
    \/ SaveRepaired
    \/ FinalAnalyzeCall
    \/ FinalAnalyzeReturn

\* one run of main()
Spec == Init /\ [][Next]_vars

\* the process has exited; a later run of main() will use the same
\* OUTPUT_DIR
NextRun ==
    /\ pc = "exited"
    /\ nsessions < MaxSessions
    /\ pc' = "idle"
    /\ env' = [pkg |-> FALSE, key |-> FALSE]
    /\ prompt_file' = None
    /\ prompt' = None /\ lang' = None /\ backend' = NoBackend
    /\ gen' = NoResult /\ current_path' = NoPath /\ iteration' = -1
    /\ report' = NoReport /\ ok' = FALSE /\ code_text' = NoText
    /\ res' = NoResult /\ final_path' = NoPath /\ final_report' = NoReport
    /\ exit_code' = None
    /\ written' = <<>> /\ analysed' = <<>> /\ repairs' = <<>>
    /\ stop' = None /\ uncaught' = None /\ procs' = <<>>
    /\ UNCHANGED <<clock, disk_faults, fs, nsessions, inflight>>
    /\ UNCHANGED outside

InitRuns == Init /\ ~disk_faults

\* runs of main() one after the other into the same OUTPUT_DIR
SpecRuns == InitRuns /\ [][Next \/ NextRun]_vars

(***************************************************************************)
(* The operator's request that no further iteration be run.  Nothing in    *)
(* main() or attempt_evolve takes such a request: no argument, no flag, no *)
(* signal handler.  The request is made; no step of the program reads it.  *)
(***************************************************************************)
RequestCancel ==
    /\ pc \notin {"idle", "exited"}
    /\ ~cancel_requested
    /\ cancel_requested' = TRUE
    /\ UNCHANGED <<clock, disk_faults, fs, nsessions, pc, env, prompt_file,
                   exit_code, inflight>>
    /\ UNCHANGED locals
    /\ UNCHANGED logs
    /\ UNCHANGED hist
    /\ UNCHANGED client

\* one run of main() during which the operator may make the request
SpecCancel == Init /\ [][Next \/ RequestCancel]_vars

(***************************************************************************)
(* A process that uses AIBackend directly: it constructs one backend and   *)
(* calls generate_code and repair_code on it, in any order                 *)
(***************************************************************************)
ProviderArgs == {None, "openai", "local"}

ClientPrompts == {"write js add", "write add"}

ClientLanguages == {"python", "js"}

\* answers of the model: a fenced block with a language tag; a text
\* without a fence; a fence whose line ends are the two characters
\* backslash, n; the same with nothing between them; a text with two
\* fenced blocks
ClientResponses ==
    Responses \cup
    { <<"F", "w", "\\", "n", "s", "\\", "n", "F">>,
      <<"F", "\\", "n", "\\", "n", "F">>,
      <<"x", "N", "F", "N", "x", "N", "F", "N", "F", "N", "w", "N", "F">> }

ClientCodes == { <<"x", "N", "w">>, <<"w">> }

\* the branch "if self.provider == 'openai' and OPENAI_PKG"
RemoteUsed(b, e) == b.provider = "openai" /\ e.pkg

\* what the n remote calls of one method call can do: with
\* openai.api_key = None the library raises on every call
RemoteCalls(b, e, n) ==
    IF ~RemoteUsed(b, e) THEN {<<>>}
    ELSE [1..n -> IF e.key THEN Failures \cup ClientResponses
                  ELSE {<<"raise", "fatal">>}]

\* AIBackend(provider, max_retry)
ClientConstruct ==
    /\ client_backend = NoBackend
    /\ \E e \in Envs, provider \in ProviderArgs,
          max_retry \in 0..DefaultMaxRetry :
         /\ client_env' = e
         /\ client_provider' = provider
         /\ client_backend' = AIBackend(provider, max_retry, e)
    /\ UNCHANGED <<client_call, client_kept, cancel_requested>>
    /\ UNCHANGED <<clock, disk_faults, fs, nsessions, pc, env, prompt_file,
                   exit_code, inflight>>
    /\ UNCHANGED locals
    /\ UNCHANGED logs
    /\ UNCHANGED hist

\* backend.generate_code(prompt, language)
ClientGenerate ==
    /\ client_backend # NoBackend
    /\ client_call = NoCall
    /\ \E p \in ClientPrompts, language \in ClientLanguages,
          outs \in RemoteCalls(client_backend, client_env,
                               client_backend.max_retry + 1),
          keep \in BOOLEAN :
         LET call == [kind |-> "generate", at |-> clock, prompt |-> p,
                      language |-> language, code |-> NoText,
                      outs |-> outs,
                      res |-> generate_code(client_backend, client_env,
                                            p, language, outs)]
         IN /\ client_call' = call
            /\ client_kept' = IF keep /\ client_kept = NoCall
                                 /\ ~client_env.key
                              THEN [call EXCEPT !.outs = <<>>]
                              ELSE client_kept
    /\ UNCHANGED <<client_env, client_provider, client_backend,
                   cancel_requested>>
    /\ UNCHANGED <<clock, disk_faults, fs, nsessions, pc, env, prompt_file,
                   exit_code, inflight>>
    /\ UNCHANGED locals
    /\ UNCHANGED logs
    /\ UNCHANGED hist

\* backend.repair_code(code, analysis_report, language)
ClientRepair ==
    /\ client_backend # NoBackend
    /\ client_call = NoCall
    /\ \E code \in ClientCodes, language \in ClientLanguages,
          outs \in RemoteCalls(client_backend, client_env, 1) :
         client_call' = [kind |-> "repair", at |-> clock, prompt |-> None,
                         language |-> language, code |-> code,
                         outs |-> outs,
                         res |-> repair_code(client_backend, client_env,
                                             code, NoReport, language,
                                             IF outs = <<>> THEN <<>>
                                             ELSE outs[1])]
    /\ UNCHANGED <<client_env, client_provider, client_backend, client_kept,
                   cancel_requested>>
    /\ UNCHANGED <<clock, disk_faults, fs, nsessions, pc, env, prompt_file,
                   exit_code, inflight>>
    /\ UNCHANGED locals
    /\ UNCHANGED logs
    /\ UNCHANGED hist

\* the process is done with the result of the call
ClientDone ==
    /\ client_call # NoCall
    /\ client_call' = NoCall
    /\ UNCHANGED <<client_env, client_provider, client_backend, client_kept,
                   cancel_requested>>
    /\ UNCHANGED <<clock, disk_faults, fs, nsessions, pc, env, prompt_file,
                   exit_code, inflight>>
    /\ UNCHANGED locals
    /\ UNCHANGED logs
    /\ UNCHANGED hist

InitClient == Init /\ ~disk_faults

NextClient ==
    \/ Tick
    \/ ClientConstruct
    \/ ClientGenerate
    \/ ClientRepair
    \/ ClientDone

SpecClient == InitClient /\ [][NextClient]_vars

(***************************************************************************)
(* Properties                                                              *)
(***************************************************************************)
LoopEnded == stop # None

AllGatesFailed ==
    \A i \in 1..Len(analysed) : analysed[i].gate => ~analysed[i].ok

AllRepairsSucceeded ==
    \A i \in 1..Len(repairs) : repairs[i].returned /\ repairs[i].success

\* the artifacts written so far carry the iteration indices 0, 1, 2, ...
IndicesInOrder == \A i \in 1..Len(written) : written[i].iter = i - 1

\* C1: a run never issues more than MAX_EVOLVE_ITER repair calls; when its
\* loop has ended after every gate evaluation failed and every repair call
\* succeeded, it has issued exactly MAX_EVOLVE_ITER repair calls and has
\* written the artifacts of indices 0..MAX_EVOLVE_ITER.
C1_ExactlyMaxRepairs ==
    /\ Len(repairs) <= MAX_EVOLVE_ITER
    /\ (LoopEnded /\ AllGatesFailed /\ AllRepairsSucceeded)
          => /\ Len(repairs) = MAX_EVOLVE_ITER
             /\ Len(written) = MAX_EVOLVE_ITER + 1
             /\ IndicesInOrder

C1_Witness ==
    /\ pc = "exited"
    /\ stop = "range"
    /\ AllGatesFailed /\ AllRepairsSucceeded
    /\ Len(repairs) = MAX_EVOLVE_ITER
    /\ written[Len(written)].iter = MAX_EVOLVE_ITER

\* the gate evaluations of the run: positions in analysed
Gated == {i \in 1..Len(analysed) : analysed[i].gate}

\* C3 as stated: when the loop stopped because the iteration bound was
\* reached, the report of the final artifact fails the gate.
C3_FinalReportFails ==
    (pc = "exited" /\ stop = "range") => ~metrics_ok(final_report)

\* C3 amended: when the loop stopped because the iteration bound was
\* reached, the last report the gate evaluated failed, and it is the report
\* of the artifact before the final one; the gate never saw the final
\* artifact.
C3_LastGatedReportFails ==
    stop = "range"
        => /\ Gated # {}
           /\ LET last == CHOOSE i \in Gated : \A j \in Gated : j <= i
              IN /\ ~analysed[last].ok
                 /\ analysed[last].on = IndexOf(final_path) - 1
           /\ \A i \in Gated : analysed[i].on < IndexOf(final_path)

C3_Witness ==
    /\ pc = "exited"
    /\ stop = "range"
    /\ metrics_ok(final_report)
    /\ IndexOf(final_path) = MAX_EVOLVE_ITER + 1

\* the tools whose findings metrics_ok looks at
GatedTools == {"flake8", "mypy", "eslint"}

\* a gate verdict is in ok while the run is between the gate and the next
\* iteration
Judged == pc \in {"gate", "in_repair", "repaired"}

AllZero(r, tools) ==
    \A i \in 1..Len(r) : (r[i].finding /\ r[i].key \in tools) => r[i].rc = 0

\* C2 as stated: the gate passes iff every finding of the report has exit
\* status 0, whichever analyzer produced it.
C2_EveryFindingZero ==
    Judged => (ok <=> AllZero(report, {"flake8", "mypy", "radon", "eslint"}))

\* C2 amended: the gate passes iff every finding produced by flake8, mypy
\* or eslint has exit status 0; radon's finding is not looked at; a report
\* with no findings passes.
C2_GatedFindingsZero ==
    Judged => /\ ok <=> AllZero(report, GatedTools)
              /\ Findings(report) = <<>> => ok

C2_Witness ==
    /\ pc = "gate"
    /\ ok
    /\ \E i \in 1..Len(report) : report[i].key = "radon" /\ report[i].rc # 0

\* C9 as stated: an analyzer that cannot be run makes the gate fail,
\* whichever analyzer it is.
C9_AnyCrashFailsGate ==
    Judged => ((\E t \in DOMAIN procs : procs[t] = "raise") => ~ok)

\* C9 amended: flake8, mypy or eslint not being runnable makes the gate
\* fail: its finding carries the synthetic status and the gate is false.
C9_GatedCrashFailsGate ==
    Judged =>
       \A t \in DOMAIN procs :
          (procs[t] = "raise" /\ t \in GatedTools)
             => /\ \E i \in 1..Len(report) :
                      report[i].key = t /\ report[i].rc = SyntheticRc
                /\ ~ok

C9_Witness ==
    /\ pc = "gate"
    /\ "mypy" \in DOMAIN procs
    /\ procs["mypy"] = "raise"
    /\ procs["flake8"] = "exit0"
    /\ procs["radon"] = "exit0"
    /\ ~ok

\* the report of the last analysis and the suffix of the file it is about
LastReport == IF pc = "exited" THEN final_report ELSE report

LastSuffix == IF pc = "exited" THEN final_path.ext ELSE current_path.ext

\* C10: every report holds one finding per analyzer configured for the
\* file's suffix, in configuration order; an analyzer that could not be run
\* is a finding with a non-zero status and the error text, and the
\* analyzers after it have run.
C10_OneFindingPerAnalyzer ==
    (Judged \/ (pc = "exited" /\ final_report # NoReport))
       => LET f == Findings(LastReport)
              an == Analyzers(LastSuffix)
          IN /\ Len(f) = Len(an)
             /\ DOMAIN procs = ToolSet(LastSuffix)
             /\ \A i \in 1..Len(an) :
                   /\ f[i].key = an[i]
                   /\ procs[an[i]] = "raise"
                         => f[i].rc # 0 /\ f[i].stderr = "str(e)"
                   /\ procs[an[i]] = "exit0" => f[i].rc = 0

C10_Witness ==
    /\ pc = "gate"
    /\ current_path.ext = "py"
    /\ procs["flake8"] = "raise"
    /\ Len(report) = 3
    /\ report[3].key = "radon"
    /\ report[3].rc = 0

\* C4: the artifacts written so far carry the indices 0..n, each once, the
\* k-th repaired artifact is named and recorded with iter = k, and the
\* analyses are in the order of the artifacts: the j-th gate evaluation is
\* about artifact j - 1, the final analysis about the last one.
C4_IndicesContiguous ==
    /\ IndicesInOrder
    /\ \A i, j \in 1..Len(written) :
          i # j => written[i].path # written[j].path
    /\ \A i \in 2..Len(written) :
          /\ written[i].path.chain = [k \in 1..(i - 1) |-> k]
          /\ MetaPath(written[i].path) \in DOMAIN fs
                /\ fs[MetaPath(written[i].path)].complete
                => fs[MetaPath(written[i].path)].data.iter = i - 1
    /\ \A j \in 1..Len(analysed) :
          /\ analysed[j].on \in 1..Len(written)
          /\ analysed[j].gate => analysed[j].on = j
          /\ \A k \in 1..Len(analysed) :
                j < k => analysed[j].on <= analysed[k].on

C4_Witness ==
    /\ pc = "exited"
    /\ Len(written) = MAX_EVOLVE_ITER + 1
    /\ Len(analysed) = MAX_EVOLVE_ITER + 1

\* C5: at most one external call is in flight; the k-th repair call is
\* about artifact k - 1, carries the report computed on that artifact, and
\* is issued after the gate evaluated that report to false.
C5_RepairAfterFailedGate ==
    /\ Cardinality(inflight) <= 1
    /\ \A i \in 1..Len(repairs) :
          /\ repairs[i].of = i
          /\ repairs[i].report_on = repairs[i].of
          /\ \E j \in Gated : analysed[j].on = i /\ ~analysed[j].ok
    /\ "repair" \in inflight
          => /\ analysed[Len(analysed)].gate
             /\ ~analysed[Len(analysed)].ok
             /\ analysed[Len(analysed)].on = repairs[Len(repairs)].of
             /\ ~repairs[Len(repairs)].returned

C5_Witness ==
    /\ pc = "in_repair"
    /\ inflight = {"repair"}
    /\ Len(repairs) = 2
    /\ repairs[2].report_on = 2

\* C6: no file of the output directory is ever opened for writing a
\* second time.
C6_NoOverwrite == \A p \in DOMAIN fs : fs[p].writes <= 1

\* C7: once a repair call has returned success = false, it is the last
\* repair call, no artifact is written after the one it was about, and that
\* artifact is what attempt_evolve returns.
C7_FailedRepairStops ==
    \A i \in 1..Len(repairs) :
       (repairs[i].returned /\ ~repairs[i].success)
          => /\ i = Len(repairs)
             /\ Len(written) = i
             /\ pc \in {"repaired", "final", "in_final", "exited"}
             /\ pc # "repaired"
                   => /\ stop = "repair_failed"
                      /\ final_path = written[repairs[i].of].path

C7_Witness ==
    /\ pc = "exited"
    /\ stop = "repair_failed"
    /\ Len(repairs) = 2
    /\ ~repairs[2].success
    /\ final_path = written[2].path
    /\ Len(written) = 2

GenerationFailed == gen # NoResult /\ ~gen.success

\* C8 as stated: the exit status is non-zero exactly when the prompt file
\* is missing or the initial generation failed.
C8_NonZeroOnlyForPromptOrGeneration ==
    pc = "exited"
        => (exit_code # 0 <=> (prompt_file = "missing" \/ GenerationFailed))

\* C8 amended: the exit status is non-zero exactly when no prompt file was
\* given, the prompt file is missing, the initial generation failed, or a
\* write of an artifact raised; a run whose loop ended, however it ended,
\* exits with 0.
C8_ExitStatus ==
    pc = "exited"
        => /\ exit_code # 0 <=> \/ prompt_file = None
                                \/ prompt_file = "missing"
                                \/ GenerationFailed
                                \/ uncaught = "OSError"
           /\ LoopEnded => exit_code = 0
           /\ uncaught = "OSError" => disk_faults

C8_Witness ==
    /\ pc = "exited"
    /\ exit_code = 0
    /\ stop = "repair_failed"

\* the remote requests of the last call of the client, when it went to the
\* remote provider
RemoteCall ==
    /\ client_call # NoCall
    /\ RemoteUsed(client_backend, client_env)

\* C11: a remote call of generate_code or repair_code that fails
\* transiently while retries remain (fewer than max_retry retries made) is
\* followed by another request, so success = false is returned only when
\* the retries are exhausted; a call that fails non-transiently is the last
\* request and the result is success = false
C11_TransientFailureRetried ==
    RemoteCall =>
        LET n == client_call.res.requests
            outs == client_call.outs
        IN \A i \in 1..n :
             /\ (outs[i] = <<"raise", "transient">>
                 /\ i <= client_backend.max_retry) => n > i
             /\ outs[i] = <<"raise", "fatal">> =>
                    (n = i /\ ~client_call.res.success)

\* the other file of the artifact that the file at path p belongs to
Partner(p) == [p EXCEPT !.meta = ~p.meta]

\* C12: after save_artifacts, and after the save of a repaired artifact,
\* either the content file and the metadata record are both on the disk,
\* complete, or the save failed and neither of them is on the disk as a
\* complete record: no complete file is ever there without its partner
C12_SaveAllOrNothing ==
    \A p \in DOMAIN fs :
        fs[p].complete =>
            (Partner(p) \in DOMAIN fs /\ fs[Partner(p)].complete)

\* the fenced code blocks of a text: an opening fence at i, an optional
\* language tag, a newline, the content, a newline, the closing fence
FencedBlocks(text) ==
    {b \in [open : 1..Len(text), close : 1..Len(text)] :
        /\ text[b.open] = "F"
        /\ LitAt(text, b.open + 1 + WordRun(text, b.open + 1), <<"N">>)
        /\ b.close >= b.open + 1 + WordRun(text, b.open + 1)
        /\ LitAt(text, b.close, <<"N", "F">>)
        /\ \A j \in (b.open + 1 + WordRun(text, b.open + 1))..(b.close - 1) :
             ~LitAt(text, j, <<"N", "F">>)}

\* the content of the first fenced block of a text that has one
FirstFencedBlock(text) ==
    LET b == CHOOSE c \in FencedBlocks(text) :
                 \A d \in FencedBlocks(text) : c.open <= d.open
    IN SubSeq(text, b.open + 2 + WordRun(text, b.open + 1), b.close - 1)

\* C13: when the last response that a remote call of generate_code or
\* repair_code received is a text, the call returns success = true and its
\* code is the content of the first fenced block of that text if the text
\* has a fenced block, and the whole text if it has none
C13_FirstFencedBlockReturned ==
    (RemoteCall /\ ~Raises(client_call.outs[client_call.res.requests])) =>
        LET text == Strip(client_call.outs[client_call.res.requests])
        IN /\ client_call.res.success
           /\ client_call.res.code =
                  IF FencedBlocks(text) # {} THEN FirstFencedBlock(text)
                  ELSE text

\* C14: when OPENAI_API_KEY is not set, every call of generate_code and of
\* repair_code is served by the local stub (no remote request is made) and
\* returns success = true, whether the provider was selected automatically
\* or given explicitly to AIBackend()
C14_NoTokenUsesStub ==
    (client_call # NoCall /\ ~client_env.key) =>
        (client_call.res.success /\ client_call.res.requests = 0)

\* the last call of the client is a generate_code call with the prompt and
\* the language of the call that was kept, and no OPENAI_API_KEY is set
SameRequestNoKey ==
    /\ ~client_env.key
    /\ client_kept # NoCall
    /\ client_call.kind = "generate"
    /\ client_call.prompt = client_kept.prompt
    /\ client_call.language = client_kept.language

\* C15: with no OPENAI_API_KEY set, two generate_code calls with the same
\* prompt and the same language return the same code, whatever calls were
\* made and however much time passed between them; with the provider
\* selected automatically both return success = true
C15_StubCodeIdentical ==
    SameRequestNoKey =>
        /\ client_call.res.code = client_kept.res.code
        /\ client_call.res.success = client_kept.res.success
        /\ client_provider = None => client_call.res.success

\* a second call, at a later time, returned the stub's code again
C15_Witness ==
    /\ SameRequestNoKey
    /\ client_provider = None
    /\ client_env.pkg
    /\ client_kept.at < client_call.at
    /\ client_call.res.success
    /\ client_call.res.code = StubTemplate(client_call.prompt,
                                           client_call.language)

\* C16: once the operator's request is there, no step issues a further
\* generate, repair or analyze call (calls are issued between two steps of
\* the loop, which is where the request is to be observed)
C16_CancelHaltsLoop ==
    [][cancel_requested => inflight' \subseteq inflight]_vars

\* C17: once a gated analysis, the i-th, of artifact k has passed, the
\* session is terminal: no later gated analysis, no repair call beyond the
\* i - 1 made before it, no artifact beyond k, the loop ends by the gate
\* and artifact k is what attempt_evolve returns; and a session on a
\* language without analyzers (typescript, saved as .txt) passes the gate
\* at iteration 0 with no repair call
C17_GatePassTerminal ==
    /\ \A i \in 1..Len(analysed) :
         (analysed[i].gate /\ analysed[i].ok) =>
            /\ \A j \in (i + 1)..Len(analysed) : ~analysed[j].gate
            /\ Len(repairs) = i - 1
            /\ Len(written) = analysed[i].on
            /\ pc \in {"gate", "final", "in_final", "exited"}
            /\ uncaught = None
            /\ pc # "gate" =>
                  /\ stop = "gate"
                  /\ final_path = written[analysed[i].on].path
    /\ (lang = "typescript" /\ LoopEnded) =>
            /\ stop = "gate"
            /\ repairs = <<>>
            /\ Len(written) = 1
            /\ analysed[1].iteration = 0 /\ analysed[1].ok

\* the gate passed on the second artifact, after one repair, and the run
\* ended with it
C17_Witness ==
    /\ pc = "exited"
    /\ stop = "gate"
    /\ Len(repairs) = 1
    /\ Len(written) = 2
    /\ analysed[2].gate /\ analysed[2].ok /\ analysed[2].on = 2
    /\ final_path = written[2].path

\* a run on a typescript prompt ended
C17_NoAnalyzerSeen ==
    /\ lang = "typescript"
    /\ pc = "exited"
    /\ stop = "gate"
    /\ Len(analysed) = 2

\* code was extracted from the i-th response of the last call
CodeIn(i) ==
    /\ ~Raises(client_call.outs[i])
    /\ Truthy(_extract_code(Strip(client_call.outs[i])))

\* C18: a generate_code call on the remote provider makes between 1 and
\* max_retry + 1 requests and returns a result; every response before the
\* last one was a text without extractable code; the call returns the
\* extracted code of the first response that has some, or, when none of
\* the max_retry + 1 responses has, the text of the last response, with
\* success = true (and success = false when the last request raised); a
\* repair_code call makes exactly one request
C18_RequestsBounded ==
    RemoteCall =>
        LET n == client_call.res.requests
            outs == client_call.outs
            r == client_call.res
        IN /\ client_call.kind = "repair" => n = 1
           /\ client_call.kind = "generate" =>
                /\ n \in 1..(client_backend.max_retry + 1)
                /\ \A i \in 1..(n - 1) : ~Raises(outs[i]) /\ ~CodeIn(i)
                /\ Raises(outs[n]) => ~r.success
                /\ CodeIn(n) =>
                      /\ r.success
                      /\ r.code = _extract_code(Strip(outs[n]))
                /\ (~Raises(outs[n]) /\ ~CodeIn(n)) =>
                      /\ n = client_backend.max_retry + 1
                      /\ r.success
                      /\ r.code = Strip(outs[n])

\* three responses without extractable code: the third one's text is
\* returned
C18_Witness ==
    /\ RemoteCall
    /\ client_call.kind = "generate"
    /\ client_backend.max_retry = DefaultMaxRetry
    /\ client_call.res.requests = DefaultMaxRetry + 1
    /\ ~CodeIn(DefaultMaxRetry + 1)
    /\ client_call.res.success
    /\ client_call.res.code = <<"x">>
    /\ client_call.outs[1] # client_call.outs[3]

\* the run of main() is served by the local stub
StubSession == backend # NoBackend /\ ~RemoteUsed(backend, env)

\* C19: in a session served by the local stub every repair call returns
\* success = true with the code it was given and makes no remote request,
\* and every artifact written in the session has the content of artifact 0
C19_StubChainIdentical ==
    StubSession =>
        /\ \A i \in 1..Len(written) :
             fs[written[i].path].data = fs[written[1].path].data
        /\ \A i \in 1..Len(repairs) :
             repairs[i].returned => repairs[i].success
        /\ pc = "repaired" =>
             (res.success /\ res.code = code_text /\ res.requests = 0)

\* a stub session with MAX_EVOLVE_ITER repairs and as many copies of
\* artifact 0
C19_Witness ==
    /\ StubSession
    /\ pc = "exited"
    /\ Len(repairs) = MAX_EVOLVE_ITER
    /\ Len(written) = MAX_EVOLVE_ITER + 1
    /\ fs[written[MAX_EVOLVE_ITER + 1].path].data
           = StubTemplate(prompt, lang)

\* C20: however the loop of attempt_evolve ended (gate passed, repair
\* failed, iterations used up), the path it returned is the last artifact
\* written, which has the highest index of the session; and the final
\* analysis of main is the last analysis of the run and is made on that
\* artifact
C20_FinalIsLatest ==
    /\ LoopEnded =>
          /\ final_path = written[Len(written)].path
          /\ \A i \in 1..Len(written) :
               written[i].iter <= written[Len(written)].iter
    /\ \A i \in 1..Len(analysed) :
          ~analysed[i].gate =>
              (i = Len(analysed) /\ analysed[i].on = Len(written))
    /\ (pc = "exited" /\ LoopEnded) => ~analysed[Len(analysed)].gate

\* the loop used up its iterations and the final report was made on the
\* artifact of the last repair
C20_Witness ==
    /\ pc = "exited"
    /\ stop = "range"
    /\ Len(written) = MAX_EVOLVE_ITER + 1
    /\ final_path = written[MAX_EVOLVE_ITER + 1].path
    /\ ~analysed[Len(analysed)].gate
    /\ analysed[Len(analysed)].on = MAX_EVOLVE_ITER + 1

====
